---- MODULE Spec2Model ----
(***************************************************************************)
(* SpeedyReader-AI: the App shell (INPUT / READING), the InputArea text    *)
(* and the Reader's playback scheduler (words, currentIndex, isPlaying,    *)
(* settings, the advance timer kept in timerRef).                          *)
(*                                                                         *)
(* A text is a sequence of one-character strings.  A duration is the exact *)
(* rational [num, den] in milliseconds.  fontSize is counted in half rems. *)
(* One action is one event-loop task: the handler, the re-render it        *)
(* causes and the effects React then flushes (cleanup of the timer effect  *)
(* followed by its body, whenever one of its dependencies changed).        *)
(***************************************************************************)
EXTENDS Integers, Sequences, FiniteSets, TLC

\* ---------------------------------------------------------------- bounds
\* the + button has no ceiling in the code; the model stops raising at MaxWpm
MaxWpm == 400
\* the progress bar click is a fraction k / SeekDenom, k in 0..SeekDenom
SeekDenom == 4
\* calls left outstanding by InputAreas that have been unmounted
MaxOrphans == 1

\* the longest string the tokenizer is evaluated on
MaxTextLen == 4
\* the longest token the pivot resolver is evaluated on
MaxWordLen == 50
\* the longest token body (the token without its last character) the delay
\* model is evaluated on
MaxBody == 17

\* ---------------------------------------------------- program constants
DefaultWpm == 350
MinWpm == 50
SpeedStep == 25
SliderMin == 100
SliderMax == 1200
DefaultFontSize == 8
MinFontSize == 2
MaxFontSize == 16
NoTimer == 0

\* ------------------------------------------------------------ characters
Whitespace == {" ", "\t", "\n"}
Digits == {"0", "1", "2", "3", "4", "5", "6", "7", "8", "9"}
SentenceEnd == {".", "!", "?"}
ClauseEnd == {",", ";", ":", "-"}
QuoteEnd == {"\"", ")"}

\* the texts a user types or pastes into the textarea
Texts ==
  { <<>>,
    <<" ">>,
    <<"h", "i">>,
    <<" ", "a", "5", " ", "\n", "b", ".", " ">>,
    <<"a", "b", "\t", "c", "d", ",", " ", "e">> }

\* ------------------------------------------------------------- tokenizer
RECURSIVE TrimStart(_)
TrimStart(s) ==
  IF s # <<>> /\ Head(s) \in Whitespace THEN TrimStart(Tail(s)) ELSE s

RECURSIVE TrimEnd(_)
TrimEnd(s) ==
  IF s # <<>> /\ s[Len(s)] \in Whitespace
  THEN TrimEnd(SubSeq(s, 1, Len(s) - 1))
  ELSE s

\* variant: nothing is trimmed
TrimNothing(s) == s

\* String.prototype.trim
Trim(s) == TrimEnd(TrimStart(s))

\* String.prototype.split(/\s+/): cur is the piece being collected, inSep
\* tells that the previous character belonged to a separator run
RECURSIVE SplitFrom(_, _, _)
SplitFrom(s, cur, inSep) ==
  IF s = <<>> THEN <<cur>>
  ELSE IF Head(s) \in Whitespace
       THEN IF inSep THEN SplitFrom(Tail(s), cur, TRUE)
            ELSE <<cur>> \o SplitFrom(Tail(s), <<>>, TRUE)
       ELSE SplitFrom(Tail(s), Append(cur, Head(s)), FALSE)

SplitWhitespace(s) == SplitFrom(s, <<>>, FALSE)

\* Array.prototype.filter(w => w.length > 0)
RECURSIVE FilterNonEmpty(_)
FilterNonEmpty(ws) ==
  IF ws = <<>> THEN <<>>
  ELSE IF Len(Head(ws)) > 0
       THEN <<Head(ws)>> \o FilterNonEmpty(Tail(ws))
       ELSE FilterNonEmpty(Tail(ws))

\* variant: the zero-length pieces are not filtered out
TokenizeNoFilter(t) == SplitWhitespace(Trim(t))

\* text.trim().split(/\s+/).filter(w => w.length > 0)
Tokenize(t) == FilterNonEmpty(SplitWhitespace(Trim(t)))

\* ------------------------------------------------------------ ORP split
\* variant: the generic 35% rule for every length
PivotIndexGeneric(len) == ((len - 1) * 35) \div 100

\* the pivot index by length; Math.floor((len - 1) * 0.35) for 14 and more
PivotIndex(len) ==
  IF len = 1 THEN 0
  ELSE IF len >= 2 /\ len <= 5 THEN 1
  ELSE IF len >= 6 /\ len <= 9 THEN 2
  ELSE IF len >= 10 /\ len <= 13 THEN 3
  ELSE ((len - 1) * 35) \div 100

\* word.slice(0, pivotIndex), word[pivotIndex], word.slice(pivotIndex + 1);
\* pivot is the one-character string, as a text of length 1
ResolvePivot(word) ==
  IF word = <<>> THEN [left |-> <<>>, pivot |-> <<>>, right |-> <<>>]
  ELSE LET p == PivotIndex(Len(word)) IN
       [left |-> SubSeq(word, 1, p),
        pivot |-> IF p + 1 <= Len(word) THEN <<word[p + 1]>> ELSE <<>>,
        right |-> SubSeq(word, p + 2, Len(word))]

\* ---------------------------------------------------------- delay model
Min(a, b) == IF a < b THEN a ELSE b
Max(a, b) == IF a > b THEN a ELSE b

HasChar(word, set) == \E i \in 1..Len(word) : word[i] \in set

\* variant: the length penalty is not capped
LengthFactorUncapped(word) ==
  IF Len(word) > 6 THEN 10 + (Len(word) - 6)
  ELSE IF Len(word) < 3 THEN 9
  ELSE 10

\* the three multipliers, in tenths
LengthFactor(word) ==
  IF Len(word) > 6 THEN 10 + Min(Len(word) - 6, 10)
  ELSE IF Len(word) < 3 THEN 9
  ELSE 10

DigitFactor(word) == IF HasChar(word, Digits) THEN 13 ELSE 10

PauseFactor(word) ==
  LET lastChar == word[Len(word)] IN
  IF lastChar \in SentenceEnd \/ HasChar(word, {"\n"}) THEN 22
  ELSE IF lastChar \in ClauseEnd THEN 15
  ELSE IF lastChar \in QuoteEnd THEN 12
  ELSE 10

\* milliseconds as num / den
CalculateDelay(word, w) ==
  IF word = <<>> THEN [num |-> 60000, den |-> w]
  ELSE [num |-> 60000 * LengthFactor(word) * DigitFactor(word) * PauseFactor(word),
        den |-> 1000 * w]

\* ------------------------------------------------------------------ state
VARIABLES
  appState,      \* App: "INPUT" or "READING"
  content,       \* App: the text handed to the Reader
  text,          \* InputArea: the textarea's text
  phase,         \* Reader: "unmounted", "mounting" (rendered once, effects
                 \* not yet run) or "ready"
  words,         \* Reader: the tokens
  currentIndex,  \* Reader: the position
  isPlaying,     \* Reader
  wpm,           \* Reader: settings.wpm
  fontSize,      \* Reader: settings.fontSize, in half rems
  timerRef,      \* Reader: timerRef.current, NoTimer for null
  timers,        \* the event loop's pending timeouts
  pausedAt,      \* history: the position at the last pause, -1 once a seek,
                 \* a reset, a timer fire or a new text has intervened
  prior,         \* history: the scheduler state the last Edit Text click
                 \* found, kept until the next Reader is first used
  isGenerating,  \* InputArea
  error,         \* InputArea: the message shown, NoError for null
  call,          \* the collaborator call the mounted InputArea awaits
  orphans,       \* the number of calls still outstanding whose InputArea
                 \* has been unmounted
  apiKey,        \* geminiService: whether process.env.API_KEY is set
  fnIn,          \* the argument of a function evaluated on its own
  fnOut,         \* its result, <<>> until it is evaluated
  last           \* history: the last operation; a seek and a timer fire
                 \* also record pausedAt and currentIndex before them, a
                 \* seek its k and a rate button its delta

vars == <<appState, content, text, phase, words, currentIndex, isPlaying,
          wpm, fontSize, timerRef, timers, pausedAt, prior, isGenerating,
          error, call, orphans, apiKey, fnIn, fnOut, last>>

inputVars == <<isGenerating, error, call, orphans, apiKey>>

fnVars == <<fnIn, fnOut>>

appVars == <<appState, content, text, phase, words, inputVars, fnVars>>

NoError == "null"

NoCall == [kind |-> "none"]

NoFn == [fn |-> "none"]

Op(name) == [op |-> name, from |-> -1, idx |-> -1, arg |-> -1]

OpAt(name, paused, idx) ==
  [op |-> name, from |-> paused, idx |-> idx, arg |-> -1]

NoPrior == [idx |-> -1, playing |-> FALSE, pending |-> FALSE]

TimerIds(ts) == {t.id : t \in ts}

\* setTimeout returns a handle that no pending timeout and no holder has
NewTimerId(ts, ref) ==
  CHOOSE i \in 1..(Cardinality(ts) + 2) :
    /\ i \notin TimerIds(ts) \cup {ref}
    /\ \A j \in 1..(i - 1) : j \in TimerIds(ts) \cup {ref}

\* variant: the handle is never cleared
ClearTimeoutNoOp(ts, id) == ts

\* clearTimeout(id)
ClearTimeout(ts, id) == {t \in ts : t.id # id}

\* variant: the effect returns no cleanup
EffectCleanupNone(ts, ref) == ts

\* the timer effect's cleanup: if (timerRef.current) clearTimeout(...)
EffectCleanup(ts, ref) == IF ref # NoTimer THEN ClearTimeout(ts, ref) ELSE ts

\* variant: the effect arms a timeout without testing isPlaying
EffectBodyAlways(ts, ref, ip, idx, ws, w) ==
  IF idx < Len(ws)
  THEN LET id == NewTimerId(ts, ref) IN
       [timers |-> ts \cup {[id |-> id,
                             delay |-> CalculateDelay(ws[idx + 1], w),
                             elapsed |-> FALSE]},
        timerRef |-> id]
  ELSE [timers |-> ts, timerRef |-> ref]

\* the timer effect's body: arm one timeout for the word now displayed
EffectBody(ts, ref, ip, idx, ws, w) ==
  IF ip /\ idx < Len(ws)
  THEN LET id == NewTimerId(ts, ref) IN
       [timers |-> ts \cup {[id |-> id,
                             delay |-> CalculateDelay(ws[idx + 1], w),
                             elapsed |-> FALSE]},
        timerRef |-> id]
  ELSE [timers |-> ts, timerRef |-> ref]

\* variant: settings.wpm left out of the dependency list
TimerDepsNoWpm(ip, idx, ws, w) == <<ip, idx, ws, Len(ws)>>

\* variant: currentIndex left out of the dependency list
TimerDepsNoIndex(ip, idx, ws, w) == <<ip, ws, w, Len(ws)>>

\* the effect's dependency list [isPlaying, currentIndex, words, settings.wpm,
\* step]; step changes with words.length only
TimerDeps(ip, idx, ws, w) == <<ip, idx, ws, w, Len(ws)>>

\* a commit: the effect re-runs (cleanup, then body) iff a dependency changed
TimerEffect(ts, ref, oldDeps, ip, idx, ws, w) ==
  IF TimerDeps(ip, idx, ws, w) = oldDeps
  THEN [timers |-> ts, timerRef |-> ref]
  ELSE EffectBody(EffectCleanup(ts, ref), ref, ip, idx, ws, w)

\* variant: the last step moves past the last word
StepToLength(prev, len) ==
  IF prev >= len - 1
  THEN [index |-> len, stop |-> TRUE]
  ELSE [index |-> prev + 1, stop |-> FALSE]

\* the updater of step(): [index, stop]
Step(prev, len) ==
  IF prev >= len - 1
  THEN [index |-> prev, stop |-> TRUE]
  ELSE [index |-> prev + 1, stop |-> FALSE]

\* variant: the fraction is rounded to the nearest word
SeekIndexRounded(k, len) == (2 * k * len + SeekDenom) \div (2 * SeekDenom)

\* variant: the click is turned into a 1-based word number
SeekIndexOneBased(k, len) == (k * len) \div SeekDenom + 1

\* Math.floor(p * words.length) with p = k / SeekDenom
SeekIndex(k, len) == (k * len) \div SeekDenom

\* variant: the floor is left out
SpeedChangeUnclamped(prev, delta) == prev + delta

\* Math.max(50, prev.wpm + delta)
SpeedChange(prev, delta) == Max(MinWpm, prev + delta)

\* Math.max(1, Math.min(8, prev.fontSize + delta))
FontSizeChange(prev, delta) == Max(MinFontSize, Min(MaxFontSize, prev + delta))

SliderValues ==
  {v \in SliderMin..Min(SliderMax, MaxWpm) : (v - SliderMin) % SpeedStep = 0}

InitWith(key, arg) ==
  /\ appState = "INPUT"
  /\ content = <<>>
  /\ text = <<>>
  /\ phase = "unmounted"
  /\ words = <<>>
  /\ currentIndex = 0
  /\ isPlaying = FALSE
  /\ wpm = DefaultWpm
  /\ fontSize = DefaultFontSize
  /\ timerRef = NoTimer
  /\ timers = {}
  /\ pausedAt = -1
  /\ prior = NoPrior
  /\ isGenerating = FALSE
  /\ error = NoError
  /\ call = NoCall
  /\ orphans = 0
  /\ apiKey = key
  /\ fnIn = arg
  /\ fnOut = <<>>
  /\ last = Op("init")

Init == InitWith(TRUE, NoFn)

readerVars == <<phase, words, currentIndex, isPlaying, wpm, fontSize,
                timerRef, timers, pausedAt>>

\* ---------------------------------------------------------- geminiService
\* what the collaborator may answer: response.text empty or a text
Responses == {<<>>, <<"o", "k">>}

SummaryFallback ==
  <<"C", "o", "u", "l", "d", " ", "n", "o", "t", " ", "g", "e", "n", "e",
  "r", "a", "t", "e", " ", "s", "u", "m", "m", "a", "r", "y", ".">>

PracticeFallback ==
  <<"C", "o", "u", "l", "d", " ", "n", "o", "t", " ", "g", "e", "n", "e",
  "r", "a", "t", "e", " ", "t", "e", "x", "t", ".">>

OptimizeFallback ==
  <<"C", "o", "u", "l", "d", " ", "n", "o", "t", " ", "o", "p", "t", "i",
  "m", "i", "z", "e", " ", "t", "e", "x", "t", ".">>

\* summarizeText: return response.text || "Could not generate summary."
SummarizeText(r) == IF r = <<>> THEN SummaryFallback ELSE r

\* generatePracticeText: return response.text || "Could not generate text."
GeneratePracticeText(r) == IF r = <<>> THEN PracticeFallback ELSE r

\* optimizeForSpeedReading: return response.text || "Could not optimize text."
OptimizeForSpeedReading(r) == IF r = <<>> THEN OptimizeFallback ELSE r

\* the value the awaited promise resolves to
ServiceResult(kind, r) ==
  CASE kind = "summarize" -> SummarizeText(r)
    [] kind = "optimize" -> OptimizeForSpeedReading(r)
    [] kind = "generate" -> GeneratePracticeText(r)

\* the message each handler's catch block sets
ErrorOf(kind) ==
  CASE kind = "summarize" -> "Failed to summarize. Check API key."
    [] kind = "optimize" -> "Failed to optimize. Check API key."
    [] kind = "generate" -> "Failed to generate text. Check API key."

\* ------------------------------------------------------------- InputArea
\* textarea onChange
Edit(t) ==
  /\ appState = "INPUT"
  /\ t # text
  /\ text' = t
  /\ last' = Op("edit")
  /\ UNCHANGED <<appState, content, prior, inputVars, fnVars>>
  /\ UNCHANGED readerVars

\* the eraser button
Clear ==
  /\ appState = "INPUT"
  /\ text' = <<>>
  /\ last' = Op("clear")
  /\ UNCHANGED <<appState, content, prior, inputVars, fnVars>>
  /\ UNCHANGED readerVars

\* the three buttons are disabled={isGenerating ...}
MayStart(gen) == ~gen

\* variant: the handlers have no finally block
FinallyNone(gen) == gen

\* finally { setIsGenerating(false) }
Finally(gen) == FALSE

\* a handler up to its await: setIsGenerating(true), setError(null), the call
\* is made; without an API key the service throws at once and the handler's
\* catch and finally run before any other event
StartCall(kind) ==
  /\ appState = "INPUT"
  /\ MayStart(isGenerating)
  /\ IF apiKey
     THEN /\ isGenerating' = TRUE
          /\ error' = NoError
          /\ call' = [kind |-> kind, startText |-> text]
          /\ last' = Op(kind)
     ELSE /\ isGenerating' = Finally(TRUE)
          /\ error' = ErrorOf(kind)
          /\ call' = call
          /\ last' = Op("noKey")
  /\ UNCHANGED <<appState, content, text, prior, orphans, apiKey, fnVars>>
  /\ UNCHANGED readerVars

\* Summarize: if (!text) return; the button is disabled={isGenerating || !text}
HandleSummarize == text # <<>> /\ StartCall("summarize")

\* Optimize for Speed
HandleOptimize == text # <<>> /\ StartCall("optimize")

\* Generate Practice Text: no text needed
HandleGenerateStory == StartCall("generate")

\* the awaited call resolves: setText(result), finally setIsGenerating(false)
CallResolves(r) ==
  /\ call # NoCall
  /\ text' = ServiceResult(call.kind, r)
  /\ isGenerating' = Finally(isGenerating)
  /\ call' = NoCall
  /\ last' = Op("callResolves")
  /\ UNCHANGED <<appState, content, prior, error, orphans, apiKey, fnVars>>
  /\ UNCHANGED readerVars

\* the awaited call rejects: catch setError(...), finally setIsGenerating(false)
CallFails ==
  /\ call # NoCall
  /\ error' = ErrorOf(call.kind)
  /\ isGenerating' = Finally(isGenerating)
  /\ call' = NoCall
  /\ last' = Op("callFails")
  /\ UNCHANGED <<appState, content, text, prior, orphans, apiKey, fnVars>>
  /\ UNCHANGED readerVars

\* a call whose InputArea was unmounted resolves or rejects: the state
\* updates of an unmounted component are dropped
OrphanSettles ==
  /\ orphans > 0
  /\ orphans' = orphans - 1
  /\ last' = Op("orphanSettles")
  /\ UNCHANGED <<appState, content, text, prior, isGenerating, error, call,
                 apiKey, fnVars>>
  /\ UNCHANGED readerVars

\* Start Reading: onStart(text), App.handleStartReading; the InputArea
\* unmounts (a call it awaits stays outstanding) and the Reader is rendered
\* once with its initial state
StartReading ==
  /\ appState = "INPUT"
  /\ text # <<>>
  /\ call = NoCall \/ orphans < MaxOrphans
  /\ last' = Op("start")
  /\ UNCHANGED <<prior, apiKey, fnVars>>
  /\ IF Trim(text) = <<>>
     THEN /\ UNCHANGED <<appState, content, text, isGenerating, error, call,
                         orphans>>
          /\ UNCHANGED readerVars
     ELSE /\ content' = text
          /\ isGenerating' = FALSE
          /\ error' = NoError
          /\ call' = NoCall
          /\ orphans' = IF call = NoCall THEN orphans ELSE orphans + 1
          /\ appState' = "READING"
          /\ text' = <<>>
          /\ phase' = "mounting"
          /\ words' = <<>>
          /\ currentIndex' = 0
          /\ isPlaying' = FALSE
          /\ wpm' = DefaultWpm
          /\ fontSize' = DefaultFontSize
          /\ timerRef' = NoTimer
          /\ pausedAt' = -1
          /\ UNCHANGED timers

\* ---------------------------------------------------------------- Reader
\* the effects of the first commit: the tokenization effect sets the state,
\* the timer effect then runs for the new words
TokenizeEffect ==
  /\ appState = "READING"
  /\ phase = "mounting"
  /\ LET ws == Tokenize(content)
         r == EffectBody(EffectCleanup(timers, timerRef), timerRef,
                         FALSE, 0, ws, wpm)
     IN /\ words' = ws
        /\ timers' = r.timers
        /\ timerRef' = r.timerRef
  /\ currentIndex' = 0
  /\ isPlaying' = FALSE
  /\ phase' = "ready"
  /\ pausedAt' = -1
  /\ last' = Op("tokenize")
  /\ UNCHANGED <<appState, content, text, wpm, fontSize, prior, inputVars,
                 fnVars>>

Ready == appState = "READING" /\ phase = "ready"

\* a handler's state update, the re-render and the effects it causes
Commit(ts, ip, idx, w, fs) ==
  /\ isPlaying' = ip
  /\ currentIndex' = idx
  /\ wpm' = w
  /\ fontSize' = fs
  /\ LET r == TimerEffect(ts, timerRef,
                          TimerDeps(isPlaying, currentIndex, words, wpm),
                          ip, idx, words, w)
     IN timers' = r.timers /\ timerRef' = r.timerRef
  /\ prior' = NoPrior
  /\ UNCHANGED appVars

TogglePlay ==
  /\ Ready
  /\ Commit(timers, ~isPlaying, currentIndex, wpm, fontSize)
  /\ pausedAt' = IF isPlaying THEN currentIndex ELSE pausedAt
  /\ last' = Op("togglePlay")

Reset ==
  /\ Ready
  /\ Commit(timers, FALSE, 0, wpm, fontSize)
  /\ pausedAt' = -1
  /\ last' = Op("reset")

\* the - and + buttons
HandleSpeedChange(delta) ==
  /\ Ready
  /\ wpm + delta <= MaxWpm
  /\ Commit(timers, isPlaying, currentIndex, SpeedChange(wpm, delta), fontSize)
  /\ last' = [Op("speed") EXCEPT !.arg = delta]
  /\ UNCHANGED pausedAt

\* the range input
SliderChange(v) ==
  /\ Ready
  /\ v # wpm
  /\ Commit(timers, isPlaying, currentIndex, v, fontSize)
  /\ last' = Op("slider")
  /\ UNCHANGED pausedAt

HandleFontSizeChange(delta) ==
  /\ Ready
  /\ Commit(timers, isPlaying, currentIndex, wpm,
            FontSizeChange(fontSize, delta))
  /\ last' = Op("font")
  /\ UNCHANGED pausedAt

\* a click on the progress bar at fraction k / SeekDenom
Seek(k) ==
  /\ Ready
  /\ Commit(timers, isPlaying, SeekIndex(k, Len(words)), wpm, fontSize)
  /\ pausedAt' = -1
  /\ last' = [OpAt("seek", pausedAt, currentIndex) EXCEPT !.arg = k]

\* time passes without reaching any deadline
TimePasses ==
  /\ \E t \in timers : ~t.elapsed
  /\ timers' = {[t EXCEPT !.elapsed = TRUE] : t \in timers}
  /\ last' = Op("time")
  /\ prior' = IF Ready THEN NoPrior ELSE prior
  /\ UNCHANGED <<appVars, currentIndex, isPlaying, wpm, fontSize, timerRef,
                 pausedAt>>

\* a timeout's deadline is reached: step()
TimerFire(t) ==
  /\ t \in timers
  /\ t.elapsed
  /\ last' = OpAt("timerFire", pausedAt, currentIndex)
  /\ pausedAt' = -1
  /\ IF Ready
     THEN LET s == Step(currentIndex, Len(words)) IN
          Commit(timers \ {t}, IF s.stop THEN FALSE ELSE isPlaying, s.index,
                 wpm, fontSize)
     ELSE /\ timers' = timers \ {t}
          /\ UNCHANGED <<appVars, currentIndex, isPlaying, wpm, fontSize,
                         timerRef, prior>>

\* Edit Text: App.handleBackToEdit; the Reader unmounts (its effect cleanup
\* runs, its state is dropped) and the InputArea mounts with initialText
BackToEdit ==
  /\ Ready
  /\ appState' = "INPUT"
  /\ text' = content
  /\ timers' = EffectCleanup(timers, timerRef)
  /\ phase' = "unmounted"
  /\ words' = <<>>
  /\ currentIndex' = 0
  /\ isPlaying' = FALSE
  /\ wpm' = DefaultWpm
  /\ fontSize' = DefaultFontSize
  /\ timerRef' = NoTimer
  /\ pausedAt' = -1
  /\ prior' = [idx |-> currentIndex, playing |-> isPlaying,
                pending |-> timers # {}]
  /\ last' = Op("back")
  /\ isGenerating' = FALSE
  /\ error' = NoError
  /\ call' = NoCall
  /\ UNCHANGED <<content, orphans, apiKey, fnVars>>

Next ==
  \/ \E t \in Texts : Edit(t)
  \/ Clear
  \/ StartReading
  \/ TokenizeEffect
  \/ TogglePlay
  \/ Reset
  \/ \E d \in {-SpeedStep, SpeedStep} : HandleSpeedChange(d)
  \/ \E v \in SliderValues : SliderChange(v)
  \/ \E d \in {-1, 1} : HandleFontSizeChange(d)
  \/ \E k \in 0..SeekDenom : Seek(k)
  \/ TimePasses
  \/ \E t \in timers : TimerFire(t)
  \/ BackToEdit

Spec == Init /\ [][Next]_vars

\* the event loop runs a timeout whose deadline has come: time does not stop
\* while a timeout is pending, and a due timeout is eventually run
FairSpec ==
  /\ Init
  /\ [][Next]_vars
  /\ WF_vars(TimePasses)
  /\ WF_vars(\E t \in timers : TimerFire(t))

\* the InputArea and the collaborator, with or without an API key; the
\* Reader is only mounted and left
InputInit == \E key \in BOOLEAN : InitWith(key, NoFn)

NextInput ==
  \/ \E t \in Texts : Edit(t)
  \/ Clear
  \/ HandleSummarize
  \/ HandleOptimize
  \/ HandleGenerateStory
  \/ \E r \in Responses : CallResolves(r)
  \/ CallFails
  \/ OrphanSettles
  \/ StartReading
  \/ TokenizeEffect
  \/ BackToEdit

InputSpec == InputInit /\ [][NextInput]_vars

\* the awaited promise settles
CallSettles == (\E r \in Responses : CallResolves(r)) \/ CallFails

\* a call that is awaited eventually resolves or rejects
FairInputSpec == InputInit /\ [][NextInput]_vars /\ WF_vars(CallSettles)

\* ------------------------------------------- functions evaluated alone
RECURSIVE StringsUpTo(_, _)
StringsUpTo(alphabet, n) ==
  IF n = 0 THEN {<<>>}
  ELSE LET shorter == StringsUpTo(alphabet, n - 1) IN
       shorter \cup {Append(t, c) : t \in shorter, c \in alphabet}

\* strings of letters, spaces, tabs and newlines
TokenizeInputs ==
  {[fn |-> "tokenize", s |-> t] :
     t \in StringsUpTo({"a", "b"} \cup Whitespace, MaxTextLen)}

Letters ==
  <<"a", "b", "c", "d", "e", "f", "g", "h", "i", "j", "k", "l", "m",
    "n", "o", "p", "q", "r", "s", "t", "u", "v", "w", "x", "y", "z",
    "A", "B", "C", "D", "E", "F", "G", "H", "I", "J", "K", "L", "M",
    "N", "O", "P", "Q", "R", "S", "T", "U", "V", "W", "X", "Y", "Z">>

\* the word of n letters that starts at the k-th letter
Word(n, k) == [i \in 1..n |-> Letters[((i + k - 2) % Len(Letters)) + 1]]

PivotInputs ==
  {[fn |-> "pivot", word |-> Word(n, k)] : n \in 0..MaxWordLen, k \in 1..3}

\* the last characters that matter to the pause, a letter and a digit
LastChars == SentenceEnd \cup ClauseEnd \cup QuoteEnd \cup {"a", "5"}

\* n letters, the first replaced by a digit if asked
Body(n, digit) == [i \in 1..n |-> IF digit /\ i = 1 THEN "7" ELSE "a"]

Rates == {MinWpm, MinWpm + SpeedStep, DefaultWpm, SliderMax}

\* a token (no whitespace) and two rates
DelayInputs ==
  {[fn |-> "delay", word |-> Append(Body(n, d), c), wpm |-> w, wpm2 |-> w2] :
     n \in 0..MaxBody, d \in BOOLEAN, c \in LastChars,
     w \in Rates, w2 \in Rates}

FnInit ==
  \E arg \in TokenizeInputs \cup PivotInputs \cup DelayInputs :
    InitWith(TRUE, arg)

Eval(result) ==
  /\ fnOut = <<>>
  /\ fnOut' = <<result>>
  /\ last' = Op("eval")
  /\ UNCHANGED <<appState, content, text, prior, inputVars, fnIn>>
  /\ UNCHANGED readerVars

EvalTokenize == fnIn.fn = "tokenize" /\ Eval(Tokenize(fnIn.s))

EvalResolvePivot == fnIn.fn = "pivot" /\ Eval(ResolvePivot(fnIn.word))

EvalCalculateDelay ==
  /\ fnIn.fn = "delay"
  /\ Eval(<<CalculateDelay(fnIn.word, fnIn.wpm),
            CalculateDelay(fnIn.word, fnIn.wpm2)>>)

NextFn ==
  \/ EvalTokenize
  \/ EvalResolvePivot
  \/ EvalCalculateDelay

FnSpec == FnInit /\ [][NextFn]_vars

TypeOK ==
  /\ appState \in {"INPUT", "READING"}
  /\ isPlaying \in BOOLEAN
  /\ wpm \in MinWpm..Max(MaxWpm, DefaultWpm)
  /\ fontSize \in MinFontSize..MaxFontSize
  /\ currentIndex \in Nat

\* ================================================================ claims
\* the one timeout the effect arms for the word at idx at rate w
FreshTimer(idx, w) ==
  [id |-> timerRef', delay |-> CalculateDelay(words[idx + 1], w),
   elapsed |-> FALSE]

\* C1: whenever position == length(tokens), isPlaying is false.
C1_FinishedNotPlaying == currentIndex = Len(words) => ~isPlaying

\* C2: whenever isPlaying is true exactly one advance timer is pending.
C2_OneTimerWhilePlaying == isPlaying => Cardinality(timers) = 1

\* C3 as stated: a timer fire on the last token leaves position ==
\* length(tokens) and isPlaying == false.
C3_FireOnLastReachesLength ==
  [][(last'.op = "timerFire" /\ Ready /\ isPlaying
        /\ currentIndex + 1 >= Len(words))
      => (currentIndex' = Len(words) /\ ~isPlaying')]_vars

\* C3 amended: a timer fire on the last token stops playback and leaves the
\* position on the last token (length(tokens) - 1); nothing is re-armed.
C3_FireOnLastStops ==
  [][(last'.op = "timerFire" /\ Ready /\ isPlaying
        /\ currentIndex + 1 >= Len(words))
      => (/\ currentIndex' = currentIndex
          /\ currentIndex' = Len(words) - 1
          /\ ~isPlaying'
          /\ timers' = {})]_vars

C3_Witness ==
  /\ Ready
  /\ last.op = "timerFire"
  /\ ~isPlaying
  /\ Len(words) > 1
  /\ currentIndex = Len(words) - 1

\* C4: a timer fire before the last token moves the position by exactly one,
\* keeps playing and leaves exactly one fresh timer, armed for the word at the
\* new position; outside a seek the position never grows by more than one.
C4_FireAdvancesByOne ==
  [][/\ (last'.op = "timerFire" /\ Ready /\ isPlaying
           /\ currentIndex + 1 < Len(words))
        => (/\ currentIndex' = currentIndex + 1
            /\ isPlaying'
            /\ timers' = {FreshTimer(currentIndex', wpm')})
     /\ (currentIndex' > currentIndex + 1 => last'.op = "seek")]_vars

C4_Witness ==
  /\ Ready
  /\ last.op = "timerFire"
  /\ isPlaying
  /\ currentIndex = last.idx + 1
  /\ Cardinality(timers) = 1
  /\ \A t \in timers : ~t.elapsed

\* C5: the play toggle at position == length(tokens) changes nothing.
C5_PlayAtEndIsNoOp ==
  [][(last'.op = "togglePlay" /\ ~isPlaying /\ currentIndex = Len(words))
      => UNCHANGED <<currentIndex, isPlaying, wpm, timers>>]_vars

\* C6 as stated: a rate change while Playing leaves the pending timer alone.
C6_RateChangeKeepsTimer ==
  [][(last'.op \in {"speed", "slider"} /\ isPlaying)
      => timers' = timers]_vars

\* C6 amended: a rate change while Playing with a timer pending keeps the
\* position and, if wpm really changed, cancels that timer and arms a fresh
\* one for the same word at the new wpm; if wpm did not change (the - button
\* at the floor) the timer is left alone.
C6_RateChangeRearms ==
  [][(last'.op \in {"speed", "slider"} /\ isPlaying /\ timers # {})
      => (/\ currentIndex' = currentIndex
          /\ isPlaying'
          /\ IF wpm' = wpm
             THEN timers' = timers
             ELSE /\ TimerIds(timers') \cap TimerIds(timers) = {}
                  /\ timers' = {FreshTimer(currentIndex, wpm')})]_vars

C6_Witness ==
  /\ last.op \in {"speed", "slider"}
  /\ isPlaying
  /\ wpm # DefaultWpm
  /\ timers # {}
  /\ \A t \in timers : ~t.elapsed /\ t.delay.den = 1000 * wpm

\* C7 as stated: every seek while Playing, also one onto the position already
\* displayed, cancels the pending timer and arms a fresh one.
C7_EverySeekRearms ==
  [][(last'.op = "seek" /\ isPlaying)
      => (/\ TimerIds(timers') \cap TimerIds(timers) = {}
          /\ currentIndex' < Len(words)
          /\ timers' = {FreshTimer(currentIndex', wpm)})]_vars

\* C7 amended: a seek while Playing that changes the position cancels the
\* pending timer, and arms a fresh one for the word at the new position at the
\* current wpm iff that position is below length(tokens); a seek onto the
\* position already displayed leaves the pending timer as it is.
C7_MovingSeekRearms ==
  [][(last'.op = "seek" /\ isPlaying)
      => (/\ isPlaying'
          /\ wpm' = wpm
          /\ IF currentIndex' = currentIndex
             THEN timers' = timers
             ELSE /\ TimerIds(timers') \cap TimerIds(timers) = {}
                  /\ IF currentIndex' < Len(words)
                     THEN timers' = {FreshTimer(currentIndex', wpm)}
                     ELSE timers' = {})]_vars

C7_Witness ==
  /\ last.op = "seek"
  /\ isPlaying
  /\ last.idx # currentIndex
  /\ currentIndex < Len(words)
  /\ Cardinality(timers) = 1
  /\ \A t \in timers : ~t.elapsed

\* C8: from a pause until the first timer fire after the resume (no seek or
\* reset in between) the position is the one paused at, no timer is pending
\* while paused, and that first fire either moves to exactly that position
\* plus one or, on the last token, stops there.
C8_ResumeSameToken ==
  /\ pausedAt # -1 =>
       /\ currentIndex = pausedAt
       /\ ~isPlaying => timers = {}
  /\ (last.op = "timerFire" /\ last.from # -1) =>
       \/ currentIndex = last.from + 1
       \/ /\ currentIndex = last.from
          /\ currentIndex = Len(words) - 1
          /\ ~isPlaying

C8_Witness ==
  /\ last.op = "timerFire"
  /\ last.from # -1
  /\ currentIndex = last.from + 1
  /\ isPlaying

\* C9: once a new text is accepted the Reader holds tokenize(text), position
\* 0 and isPlaying false, and from the Edit Text click on no timer of the
\* previous text is pending, whatever state the scheduler was left in.
C9_ReplaceResets ==
  /\ last.op \in {"back", "start", "tokenize"} =>
       /\ timers = {}
       /\ currentIndex = 0
       /\ ~isPlaying
  /\ last.op = "tokenize" =>
       /\ words = Tokenize(content)
       /\ words # <<>>

C9_Witness ==
  /\ last.op = "tokenize"
  /\ prior.playing
  /\ prior.pending
  /\ prior.idx > 0
  /\ Len(words) > 1

\* C10: 0 <= position <= length(tokens) in every state.
C10_PositionInRange == 0 <= currentIndex /\ currentIndex <= Len(words)

C10_Witness ==
  /\ last.op = "seek"
  /\ Len(words) > 1
  /\ currentIndex = Len(words)

\* C11: a seek at fraction k / SeekDenom sets the position to
\* floor(fraction * length(tokens)), 0 at fraction 0 and length(tokens) at
\* fraction 1, and leaves isPlaying, wpm, fontSize and the tokens unchanged.
C11_SeekSetsFloor ==
  [][last'.op = "seek"
      => (/\ currentIndex' * SeekDenom <= last'.arg * Len(words)
          /\ last'.arg * Len(words) < (currentIndex' + 1) * SeekDenom
          /\ (last'.arg = 0 => currentIndex' = 0)
          /\ (last'.arg = SeekDenom => currentIndex' = Len(words))
          /\ UNCHANGED <<isPlaying, wpm, fontSize, words>>)]_vars

C11_Witness ==
  /\ last.op = "seek"
  /\ last.arg \notin {0, SeekDenom}
  /\ Len(words) = 3
  /\ currentIndex = 2
  /\ last.idx # currentIndex
  /\ isPlaying
  /\ wpm # DefaultWpm
  /\ fontSize # DefaultFontSize

\* C12: wpm >= 50 in every state, by the buttons and by the slider.
C12_WpmAtLeastFloor == wpm >= 50 /\ wpm > 0

C12_Witness ==
  /\ last.op = "speed"
  /\ last.arg < 0
  /\ wpm = 50
  /\ \E t \in timers : t.delay.den = 1000 * wpm

\* C19: while isPlaying is false no timer is pending, and the position then
\* changes only by a seek, a reset or a replacement of the text.
C19_NoTimerWhileStopped ==
  /\ [](~isPlaying => timers = {})
  /\ [][(~isPlaying /\ currentIndex' # currentIndex)
         => last'.op \in {"seek", "reset", "back", "start", "tokenize"}]_vars

C19_Witness ==
  /\ Ready
  /\ last.op \in {"togglePlay", "reset"}
  /\ ~isPlaying
  /\ timerRef # NoTimer
  /\ timers = {}

\* C20: if from some point on the user does nothing (only time passes and
\* timers fire), every state with isPlaying true is followed by one with
\* isPlaying false.
C20_PlaybackStops ==
  <>[][last'.op \in {"time", "timerFire"}]_vars => (isPlaying ~> ~isPlaying)

\* the collaborator calls started and neither resolved nor failed yet
Outstanding == (IF call = NoCall THEN 0 ELSE 1) + orphans

\* C13: at most one collaborator call is outstanding at any time, and while
\* the mounted InputArea awaits one its generating guard is set.
C13_AtMostOneCall ==
  /\ Outstanding <= 1
  /\ call # NoCall => isGenerating

\* C14: while a call is outstanding no edit and no clear changes the text, and
\* a resolving call replaces exactly the text it was started on.
C14_NoMutationDuringCall ==
  [][call # NoCall
      => (/\ last'.op \in {"edit", "clear"} => text' = text
          /\ last'.op = "callResolves" => text = call.startText)]_vars

\* C15: when a call fails (no API key, or the call rejects) the text is the
\* text from before the call, an error is shown, the guard is cleared and
\* retry, edit and Start Reading are enabled as they were before the call.
C15_FailureKeepsText ==
  [][/\ last'.op = "noKey"
        => (text' = text /\ error' # NoError /\ ~isGenerating')
     /\ last'.op = "callFails"
        => (/\ text' = call.startText
            /\ error' = ErrorOf(call.kind)
            /\ ~isGenerating'
            /\ call' = NoCall
            /\ appState' = "INPUT")]_vars

\* the positions where a maximal non-whitespace run of s starts
RunStarts(s) ==
  {i \in 1..Len(s) : s[i] \notin Whitespace /\ (i = 1 \/ s[i - 1] \in Whitespace)}

\* the position where the run that starts at i ends
RunEnd(s, i) ==
  CHOOSE j \in i..Len(s) :
    /\ \A k \in i..j : s[k] \notin Whitespace
    /\ j = Len(s) \/ s[j + 1] \in Whitespace

\* C16: tokenize returns exactly the maximal non-whitespace runs of its input,
\* in source order and unchanged; no token is empty or contains whitespace;
\* the empty string and whitespace-only strings give the empty sequence.
C16_TokensAreMaximalRuns ==
  (fnIn.fn = "tokenize" /\ fnOut # <<>>) =>
    LET s == fnIn.s
        out == fnOut[1]
    IN /\ Len(out) = Cardinality(RunStarts(s))
       /\ \A i \in RunStarts(s) :
            out[Cardinality({j \in RunStarts(s) : j <= i})]
              = SubSeq(s, i, RunEnd(s, i))
       /\ \A k \in 1..Len(out) :
            /\ out[k] # <<>>
            /\ \A i \in 1..Len(out[k]) : out[k][i] \notin {" ", "\t", "\n"}
       /\ (\A i \in 1..Len(s) : s[i] \in {" ", "\t", "\n"}) => out = <<>>

C16_Witness ==
  /\ fnIn.fn = "tokenize"
  /\ fnOut # <<>>
  /\ fnIn.s = <<"\t", "a", "\n", "b">>
  /\ fnOut[1] = <<<<"a">>, <<"b">>>>

\* C17: for a token of length 1..50 left + pivot + right is the token, pivot
\* is one character and length(left) is the table's index (0 for length 1,
\* 1 for 2-5, 2 for 6-9, 3 for 10-13, floor((length - 1) * 0.35) from 14 on),
\* never above length - 1; for the empty token the three fields are empty.
C17_PivotSplitsToken ==
  (fnIn.fn = "pivot" /\ fnOut # <<>>) =>
    LET word == fnIn.word
        n == Len(fnIn.word)
        r == fnOut[1]
        idx == Len(fnOut[1].left)
    IN IF n = 0
       THEN r.left = <<>> /\ r.pivot = <<>> /\ r.right = <<>>
       ELSE /\ r.left \o r.pivot \o r.right = word
            /\ Len(r.pivot) = 1
            /\ idx <= n - 1
            /\ n = 1 => idx = 0
            /\ n \in 2..5 => idx = 1
            /\ n \in 6..9 => idx = 2
            /\ n \in 10..13 => idx = 3
            /\ n >= 14 => /\ 100 * idx <= 35 * (n - 1)
                          /\ 35 * (n - 1) < 100 * (idx + 1)

C17_Witness ==
  /\ fnIn.fn = "pivot"
  /\ fnOut # <<>>
  /\ Len(fnIn.word) = 50
  /\ Len(fnOut[1].left) = 17
  /\ fnOut[1].pivot = <<fnIn.word[18]>>
  /\ Len(fnOut[1].right) = 32

\* C18: for a non-empty token and wpm >= 50 the duration is
\* (60000 / wpm) * L * N * P and positive, L = 1 + min((len - 6) * 0.1, 1) if
\* len > 6, 0.9 if len < 3, else 1; N = 1.3 with a digit, else 1; P = 2.2, 1.5,
\* 1.2 or 1 by the last character, first match; so for a fixed token the
\* duration strictly decreases as wpm increases.
C18_DurationFormula ==
  (fnIn.fn = "delay" /\ fnOut # <<>>) =>
    LET word == fnIn.word
        len == Len(fnIn.word)
        lastChar == fnIn.word[Len(fnIn.word)]
        d == fnOut[1][1]
        d2 == fnOut[1][2]
        L == IF len > 6
             THEN 10 + (IF len - 6 < 10 THEN len - 6 ELSE 10)
             ELSE IF len < 3 THEN 9 ELSE 10
        N == IF \E i \in 1..len : word[i] \in Digits THEN 13 ELSE 10
        P == IF lastChar \in {".", "!", "?"} THEN 22
             ELSE IF lastChar \in {",", ";", ":", "-"} THEN 15
             ELSE IF lastChar \in {"\"", ")"} THEN 12
             ELSE 10
    IN /\ fnIn.wpm >= 50
       /\ d.den = 1000 * fnIn.wpm
       /\ d.num = 60000 * L * N * P
       /\ d2.den = 1000 * fnIn.wpm2
       /\ d2.num = 60000 * L * N * P
       /\ d.num > 0 /\ d.den > 0
       /\ fnIn.wpm < fnIn.wpm2
            => (d2.num \div 60000) * (d.den \div 1000)
                 < (d.num \div 60000) * (d2.den \div 1000)

C18_Witness ==
  /\ fnIn.fn = "delay"
  /\ fnOut # <<>>
  /\ Len(fnIn.word) = 18
  /\ fnIn.word[1] = "7"
  /\ fnIn.word[18] = "?"
  /\ fnIn.wpm = 50
  /\ fnIn.wpm2 = 1200
  /\ fnOut[1][1] = [num |-> 60000 * 20 * 13 * 22, den |-> 50000]
  /\ fnOut[1][2] = [num |-> 60000 * 20 * 13 * 22, den |-> 1200000]

\* C22: the app is READING only with content that has at least one token:
\* Start Reading on empty or whitespace-only text leaves the app in INPUT
\* with content unchanged, and Edit Text never changes content.
C22_ReadingHasTokens ==
  /\ [](appState = "READING" => Tokenize(content) # <<>>)
  /\ [][(last'.op = "start" /\ Tokenize(text) = <<>>)
         => (appState' = "INPUT" /\ UNCHANGED <<appState, content>>)]_vars
  /\ [][last'.op = "back" => content' = content]_vars

C22_Witness ==
  /\ last.op = "start"
  /\ appState = "INPUT"
  /\ text = <<" ">>
  /\ Tokenize(content) # <<>>

\* C21: the generating guard is always released: a call that resolves or
\* fails (also at once, for want of an API key) leaves isGenerating false, so
\* whenever isGenerating is true it is false again later.
C21_GuardReleased ==
  /\ [][last'.op \in {"callResolves", "callFails", "noKey"}
         => ~isGenerating']_vars
  /\ isGenerating ~> ~isGenerating

C21_Witness ==
  /\ last.op = "callFails"
  /\ ~isGenerating
  /\ call = NoCall
  /\ error = ErrorOf("optimize")
  /\ text # <<>>

====
